---------------------------- MODULE Spec2Model ----------------------------
(***************************************************************************)
(* A model of tf-drift (src/src/main.rs): the Output Classifier            *)
(* (parse_plan_changes), the Unit Executor (run_terragrunt_plan) and the   *)
(* Bounded Scheduler (run_plans, over a tokio JoinSet).                    *)
(*                                                                         *)
(* Text is a sequence of one-character strings.  A byte that is not valid  *)
(* UTF-8 is the symbol BAD; String::from_utf8_lossy turns it into REPL     *)
(* (U+FFFD).  A u32 is a pair <<hi, lo>> of 16-bit limbs, hi*2^16 + lo,     *)
(* so that the full 32-bit width is kept.                                  *)
(***************************************************************************)
EXTENDS Integers, Sequences, FiniteSets, TLC

VARIABLES
    \* ---- run_plans (Bounded Scheduler) ----
    dirs,             \* the Vec<PathBuf> handed to run_plans
    max_concurency,   \* the ceiling handed to run_plans
    overflow_checks,  \* build profile: TRUE = arithmetic overflow panics
    pc,               \* position of run_plans: "for", "join", "drain", "done"
    iter,             \* what `for dir in dirs` has not yet yielded
    count,            \* the local `count`
    tasks,            \* the JoinSet: one entry per task ever spawned; st is
                      \* "spawned", "running", "finished" or, once join_next
                      \* has returned it, "joined"; panicked is history
    notified,         \* ids of finished, not yet joined tasks, oldest first
    results,          \* the local `results`
    joined,           \* history: ids join_next has returned, in order
    \* ---- one run_terragrunt_plan / parse_plan_changes call on its own ----
    upath,            \* the unit's directory
    uproc,            \* what the external process does
    uio,              \* whether println!'s write to stdout succeeds
    uresult,          \* <<>> before the call, <<r>> after (r a task result)
    \* ---- one parse_plan_changes call on its own ----
    output,           \* the text handed to parse_plan_changes
    changes,          \* <<>> before the call, <<c>> after
    \* ---- one find_tg_dirs call on its own ----
    walk,             \* what WalkDir::new(path).into_iter() yields, in order
    dio,              \* whether println!'s write to stdout succeeds
    found             \* <<>> before the call, <<[panic, value]>> after

vars == <<dirs, max_concurency, overflow_checks, pc, iter, count, tasks,
          notified, results, joined, upath, uproc, uio, uresult, output, changes,
          walk, dio, found>>

schedVars ==
    <<dirs, max_concurency, pc, iter, count, tasks, notified, results, joined>>
unitVars == <<upath, uproc, uio, uresult>>
parseVars == <<output, changes>>
discVars == <<walk, dio, found>>

-----------------------------------------------------------------------------
(* Bounds of the model *)

\* longest list of work units handed to run_plans
MaxUnits == 3
\* largest concurrency ceiling tried (0 .. MaxN)
MaxN == 3
\* most fragments concatenated into one captured text
MaxFrags == 4

-----------------------------------------------------------------------------
(* Text *)

BAD == "\\xFF"
REPL == "U+FFFD"

NoChangesMarker == <<"N","o"," ","c","h","a","n","g","e","s">>
PlanMarker == <<"P","l","a","n",":">>
PlanFileName == <<"p","l","a","n",".","t","f","p","l","a","n">>
FailedToExecute ==
    <<"F","a","i","l","e","d"," ","t","o"," ","e","x","e","c","u","t","e",":"," ">>

\* String::from_utf8_lossy / Path::to_string_lossy
from_utf8_lossy(bytes) ==
    [i \in 1..Len(bytes) |-> IF bytes[i] = BAD THEN REPL ELSE bytes[i]]

\* str::contains(pat)
contains(s, pat) ==
    \E i \in 0..(Len(s) - Len(pat)) : SubSeq(s, i + 1, i + Len(pat)) = pat

\* index of the first "\n" of s, 0 when there is none
FirstNewline(s) ==
    IF \E i \in 1..Len(s) : s[i] = "\n"
    THEN CHOOSE i \in 1..Len(s) : s[i] = "\n" /\ \A j \in 1..(i - 1) : s[j] # "\n"
    ELSE 0

\* a line's "\r" before its "\n" is not part of the line
StripCR(l) ==
    IF Len(l) > 0 /\ l[Len(l)] = "\r" THEN SubSeq(l, 1, Len(l) - 1) ELSE l

\* str::lines(): pieces ended by "\n" (or "\r\n"); a last piece with no "\n"
\* is a line as it stands; the empty text has no line
RECURSIVE lines(_)
lines(s) ==
    IF Len(s) = 0 THEN <<>>
    ELSE LET k == FirstNewline(s) IN
         IF k = 0 THEN <<s>>
         ELSE <<StripCR(SubSeq(s, 1, k - 1))>> \o lines(SubSeq(s, k + 1, Len(s)))

\* char::is_whitespace, on the characters of the model's alphabet
is_whitespace(c) == c \in {" ", "\t", "\n", "\r"}

\* str::split_whitespace(): the maximal runs of non-whitespace characters
RECURSIVE SplitFrom(_, _, _)
SplitFrom(s, i, cur) ==
    IF i > Len(s) THEN (IF cur = <<>> THEN <<>> ELSE <<cur>>)
    ELSE IF is_whitespace(s[i])
         THEN (IF cur = <<>> THEN <<>> ELSE <<cur>>) \o SplitFrom(s, i + 1, <<>>)
         ELSE SplitFrom(s, i + 1, Append(cur, s[i]))

split_whitespace(s) == SplitFrom(s, 1, <<>>)

-----------------------------------------------------------------------------
(* u32 *)

Limb == 65536
U32(n) == <<n \div Limb, n % Limb>>
U32Zero == <<0, 0>>

Digits == {"0","1","2","3","4","5","6","7","8","9"}
DigitVal(c) ==
    CASE c = "0" -> 0 [] c = "1" -> 1 [] c = "2" -> 2 [] c = "3" -> 3
      [] c = "4" -> 4 [] c = "5" -> 5 [] c = "6" -> 6 [] c = "7" -> 7
      [] c = "8" -> 8 [] c = "9" -> 9

\* v * 10 + d as <<overflowed, value>>: checked_mul then checked_add
MulAdd10(v, d) ==
    LET lo == v[2] * 10 + d
        hi == v[1] * 10 + (lo \div Limb)
    IN  <<hi >= Limb, <<hi % Limb, lo % Limb>>>>

\* a + b as <<overflowed, wrapped value>>
U32Add(a, b) ==
    LET lo == a[2] + b[2]
        hi == a[1] + b[1] + (lo \div Limb)
    IN  <<hi >= Limb, <<hi % Limb, lo % Limb>>>>

\* the digits of a token, most significant first: <<>> on overflow,
\* <<v>> otherwise
RECURSIVE ParseDigits(_, _, _)
ParseDigits(tok, i, acc) ==
    IF i > Len(tok) THEN <<acc>>
    ELSE LET r == MulAdd10(acc, DigitVal(tok[i])) IN
         IF r[1] THEN <<>> ELSE ParseDigits(tok, i + 1, r[2])

\* str::parse::<u32>(): an optional "+", then one or more ASCII digits, the
\* value at most u32::MAX.  <<>> is Err, <<v>> is Ok(v)
parse_u32(tok) ==
    LET body == IF Len(tok) > 0 /\ tok[1] = "+" THEN Tail(tok) ELSE tok IN
    IF Len(body) = 0 \/ \E i \in 1..Len(body) : body[i] \notin Digits
    THEN <<>>
    ELSE ParseDigits(body, 1, U32Zero)

\* line.split_whitespace().filter_map(|s| s.parse().ok()).collect()
RECURSIVE FilterParse(_)
FilterParse(toks) ==
    IF toks = <<>> THEN <<>>
    ELSE parse_u32(Head(toks)) \o FilterParse(Tail(toks))

\* numbers.iter().sum() as [panic, value]: an overflowing addition panics
\* when the build checks overflow and wraps when it does not
RECURSIVE SumFrom(_, _, _)
SumFrom(nums, acc, checks) ==
    IF nums = <<>> THEN [panic |-> FALSE, value |-> acc]
    ELSE LET r == U32Add(acc, Head(nums)) IN
         IF r[1] /\ checks THEN [panic |-> TRUE, value |-> U32Zero]
         ELSE SumFrom(Tail(nums), r[2], checks)

u32_sum(nums, checks) == SumFrom(nums, U32Zero, checks)

-----------------------------------------------------------------------------
(* Output Classifier *)

\* the first line of ls that contains "Plan:", <<>> when there is none
RECURSIVE FirstPlanLine(_)
FirstPlanLine(ls) ==
    IF ls = <<>> THEN <<>>
    ELSE IF contains(Head(ls), PlanMarker) THEN <<Head(ls)>>
         ELSE FirstPlanLine(Tail(ls))

\* parse_plan_changes with the two tests swapped: the "Plan:" line first
parse_plan_first(out, checks) ==
    LET l == FirstPlanLine(lines(out)) IN
    IF l # <<>> THEN u32_sum(FilterParse(split_whitespace(l[1])), checks)
    ELSE [panic |-> FALSE, value |-> U32Zero]

\* parse_plan_changes as [panic, value]; checks is the build's overflow
\* checking
parse_plan_changes(out, checks) ==
    IF contains(out, NoChangesMarker)
    THEN [panic |-> FALSE, value |-> U32Zero]
    ELSE LET l == FirstPlanLine(lines(out)) IN
         IF l = <<>> THEN [panic |-> FALSE, value |-> U32Zero]
         ELSE u32_sum(FilterParse(split_whitespace(l[1])), checks)

-----------------------------------------------------------------------------
(* Unit Executor *)

Success == "Success"
Failed == "Failed"

\* Option<String>
None == <<>>
Some(s) == <<s>>

\* Result<PlanResult, JoinError> of a finished task
Ok(r) == <<r>>
JoinError == <<>>

\* PathBuf::join with a relative file name
PathJoin(path, name) ==
    IF Len(path) = 0 \/ path[Len(path)] = "/" THEN path \o name
    ELSE path \o <<"/">> \o name

\* What Command::output().await gives: Err(e), or Ok with the exit status
\* and the captured bytes
LaunchErr(e) ==
    [launched |-> FALSE, e |-> e, success |-> FALSE, stdout |-> <<>>, stderr |-> <<>>]
Exited(ok, out, err) ==
    [launched |-> TRUE, e |-> <<>>, success |-> ok, stdout |-> out, stderr |-> err]

PlanResult(path, status, n, out, err, file, error) ==
    [path |-> path, status |-> status, changes_count |-> n, stdout |-> out,
     stderr |-> err, plan_file |-> file, error |-> error]

\* the successful arm carrying the captured stderr as its error
SuccessArmErr(path_string, plan_file, stdout, stderr, io_ok, checks) ==
    LET c == parse_plan_changes(stdout, checks) IN
    IF c.panic \/ ~io_ok THEN JoinError
    ELSE Ok(PlanResult(path_string, Success, c.value, stdout, stderr,
                       from_utf8_lossy(plan_file), Some(stderr)))

\* the Ok(output) arm with a successful exit status
SuccessArm(path_string, plan_file, stdout, stderr, io_ok, checks) ==
    LET c == parse_plan_changes(stdout, checks) IN
    IF c.panic \/ ~io_ok THEN JoinError
    ELSE Ok(PlanResult(path_string, Success, c.value, stdout, stderr,
                       from_utf8_lossy(plan_file), None))

\* the failing arm counting the changes of the captured stdout
FailureArmParsed(path_string, stdout, stderr, io_ok) ==
    IF ~io_ok THEN JoinError
    ELSE Ok(PlanResult(path_string, Failed, parse_plan_changes(stdout, FALSE).value,
                       stdout, stderr, <<>>, Some(stderr)))

\* the Ok(output) arm with a failing exit status
FailureArm(path_string, stdout, stderr, io_ok) ==
    IF ~io_ok THEN JoinError
    ELSE Ok(PlanResult(path_string, Failed, U32Zero, stdout, stderr, <<>>,
                       Some(stderr)))

\* the Err(e) arm reporting the (empty) stderr as the failing arm does
LaunchErrArmStderr(path_string, e, io_ok) ==
    IF ~io_ok THEN JoinError
    ELSE Ok(PlanResult(path_string, Failed, U32Zero, <<>>, <<>>, <<>>, Some(<<>>)))

\* the Err(e) arm
LaunchErrArm(path_string, e, io_ok) ==
    IF ~io_ok THEN JoinError
    ELSE Ok(PlanResult(path_string, Failed, U32Zero, <<>>, <<>>, <<>>,
                       Some(FailedToExecute \o e)))

\* run_terragrunt_plan from the process's end on, as the task's result: a
\* panic (println! failing to write, or an overflowing sum in a build that
\* checks overflow) ends the task with a JoinError
run_terragrunt_plan(path, proc, io_ok, checks) ==
    LET plan_file == PathJoin(path, PlanFileName)
        path_string == from_utf8_lossy(path)
    IN  IF proc.launched
        THEN LET stdout == from_utf8_lossy(proc.stdout)
                 stderr == from_utf8_lossy(proc.stderr)
             IN  IF proc.success
                 THEN SuccessArm(path_string, plan_file, stdout, stderr, io_ok, checks)
                 ELSE FailureArm(path_string, stdout, stderr, io_ok)
        ELSE LaunchErrArm(path_string, proc.e, io_ok)

-----------------------------------------------------------------------------
(* Inputs *)

Paths == {<<"a">>, <<"b">>}
\* the lists of at most MaxUnits directories, duplicates included; run_plans
\* never looks into a path, so a list stands for the one that swaps the two
\* paths too, and only those that start with the first path are kept
DirLists ==
    {d \in UNION {[1..n -> Paths] : n \in 0..MaxUnits} :
        Len(d) > 0 => d[1] = <<"a">>}

IoErrors == {<<"E">>}
DriftText == <<"P","l","a","n",":"," ","2","\n">>
Boom == <<"b">>

\* what a process of a batch may do once launched
SchedExits == {Exited(TRUE, DriftText, <<>>), Exited(FALSE, DriftText, Boom)}

\* the inputs of one run_terragrunt_plan call
UnitPaths == {<<>>, <<"a">>, <<"a","/">>, <<"a",BAD>>}
NoChangesText ==
    <<"N","o"," ","c","h","a","n","g","e","s","."," ","I","n","f","r","a","s",
      "t","r","u","c","t","u","r","e"," ","i","s"," ","u","p","-","t","o","-",
      "d","a","t","e",".">>
PlanSummary ==
    <<"P","l","a","n",":"," ","2"," ","t","o"," ","a","d","d",","," ","0"," ",
      "t","o"," ","c","h","a","n","g","e",","," ","1"," ","t","o"," ","d","e",
      "s","t","r","o","y",".">>
U32MaxText == <<"4","2","9","4","9","6","7","2","9","5">>
StdoutSamples ==
    {<<>>, DriftText, NoChangesText, PlanSummary,
     <<BAD>> \o DriftText,
     PlanMarker \o <<" ">> \o U32MaxText \o <<" ","1">>,
     DriftText \o NoChangesText}
StderrSamples == {<<>>, Boom, <<"e",BAD>>}
UnitProcs ==
    {LaunchErr(e) : e \in {<<"E">>, <<"E","N","O","E","N","T">>}}
    \cup {Exited(ok, out, err) :
             ok \in BOOLEAN, out \in StdoutSamples, err \in StderrSamples}

\* the inputs of one parse_plan_changes call: the concatenations of at most
\* MaxFrags fragments, and the sample texts
Frags ==
    {NoChangesMarker, PlanMarker, <<"\n">>, <<"x">>, <<" ","2">>,
     <<" ","+","1">>, <<" ">> \o U32MaxText,
     <<" ","4","2","9","4","9","6","7","2","9","6">>}
RECURSIVE FragTexts(_)
FragTexts(n) ==
    IF n = 0 THEN {<<>>}
    ELSE LET T == FragTexts(n - 1) IN T \cup {t \o f : t \in T, f \in Frags}
Texts == FragTexts(MaxFrags) \cup StdoutSamples

-----------------------------------------------------------------------------
(* Bounded Scheduler: run_plans over a JoinSet *)

TaskIds == 1..Len(tasks)
\* the JoinSet's entries: spawned and not yet returned by join_next
InSet == {i \in TaskIds : tasks[i].st # "joined"}
\* tasks whose external process is running
Running == {i \in TaskIds : tasks[i].st = "running"}

\* tasks.spawn(run_terragrunt_plan(dir))
spawn(ts, dir) ==
    Append(ts, [path |-> dir, st |-> "spawned", res |-> <<>>, panicked |-> FALSE])

\* the task ends and the JoinSet is not told
FinishSilent(i, r) ==
    /\ tasks' = [tasks EXCEPT ![i].st = "finished", ![i].res = <<r>>,
                              ![i].panicked = (r = JoinError)]
    /\ UNCHANGED notified

\* the task with id i ends with result r and the JoinSet is notified
Finish(i, r) ==
    /\ tasks' = [tasks EXCEPT ![i].st = "finished", ![i].res = <<r>>,
                              ![i].panicked = (r = JoinError)]
    /\ notified' = Append(notified, i)

\* pushing only the outcomes of successful plans
push_if_success(rs, result) ==
    IF result = JoinError \/ result[1].status = Failed THEN rs
    ELSE Append(rs, result[1])

\* pushing a made-up Failed outcome for a task that panicked
push_or_default(rs, result) ==
    IF result = JoinError
    THEN Append(rs, PlanResult(<<>>, Failed, U32Zero, <<>>, <<>>, <<>>, Some(<<>>)))
    ELSE Append(rs, result[1])

\* putting the outcome at the front of results
push_front(rs, result) == IF result = JoinError THEN rs ELSE <<result[1]>> \o rs

\* results after `if let Ok(plan_result) = result { results.push(..) }`
push_if_ok(rs, result) == IF result = JoinError THEN rs ELSE Append(rs, result[1])

\* join_next returning a finished task's result without taking the task out
JoinSomeKeep ==
    /\ notified # <<>>
    /\ LET i == Head(notified) IN
        /\ results' = push_if_ok(results, tasks[i].res[1])
        /\ joined' = Append(joined, i)
    /\ UNCHANGED <<tasks, notified>>

\* tasks.join_next().await returning Some(result): the oldest finished task
\* leaves the JoinSet and its result is pushed when it is Ok
JoinSome ==
    /\ notified # <<>>
    /\ LET i == Head(notified) IN
        /\ results' = push_if_ok(results, tasks[i].res[1])
        /\ tasks' = [tasks EXCEPT ![i].st = "joined", ![i].res = <<>>]
        /\ joined' = Append(joined, i)
    /\ notified' = Tail(notified)

\* the threshold test one spawn early
after_spawn_early(c, n) == IF c + 1 >= n THEN "join" ELSE "for"

\* a ceiling of 0 taken to mean no ceiling
after_spawn_pos(c, n) == IF n > 0 /\ c >= n THEN "join" ELSE "for"

\* the threshold test off by one
after_spawn_gt(c, n) == IF c > n THEN "join" ELSE "for"

\* the pc after the for loop's body: wait for one task, or go on
after_spawn(c, n) == IF c >= n THEN "join" ELSE "for"

\* the loop body with count set back to 0 once it has reached the ceiling
ForSpawnReset ==
    /\ pc = "for" /\ iter # <<>>
    /\ tasks' = spawn(tasks, Head(iter))
    /\ iter' = Tail(iter)
    /\ count' = IF count + 1 >= max_concurency THEN 0 ELSE count + 1
    /\ pc' = after_spawn(count + 1, max_concurency)
    /\ UNCHANGED <<dirs, max_concurency, overflow_checks, notified, results, joined>>
    /\ UNCHANGED <<unitVars, parseVars, discVars>>

\* for dir in dirs { tasks.spawn(..); count += 1; if count >= max_concurency
ForSpawn ==
    /\ pc = "for" /\ iter # <<>>
    /\ tasks' = spawn(tasks, Head(iter))
    /\ iter' = Tail(iter)
    /\ count' = count + 1
    /\ pc' = after_spawn(count + 1, max_concurency)
    /\ UNCHANGED <<dirs, max_concurency, overflow_checks, notified, results, joined>>
    /\ UNCHANGED <<unitVars, parseVars, discVars>>

\* the for loop is over
ForEnd ==
    /\ pc = "for" /\ iter = <<>>
    /\ pc' = "drain"
    /\ UNCHANGED <<dirs, max_concurency, overflow_checks, iter, count, tasks,
                   notified, results, joined>>
    /\ UNCHANGED <<unitVars, parseVars, discVars>>

\* the loop polling for a finished task without waiting for one
LoopJoinTry ==
    /\ pc = "join"
    /\ IF notified = <<>>
       THEN UNCHANGED <<tasks, notified, results, joined>>
       ELSE JoinSome
    /\ pc' = "for"
    /\ UNCHANGED <<dirs, max_concurency, overflow_checks, iter, count>>
    /\ UNCHANGED <<unitVars, parseVars, discVars>>

\* join_next inside the loop with its result thrown away
LoopJoinDiscard ==
    /\ pc = "join"
    /\ IF InSet = {}
       THEN UNCHANGED <<tasks, notified, joined>>
       ELSE /\ notified # <<>>
            /\ tasks' = [tasks EXCEPT ![Head(notified)].st = "joined",
                                      ![Head(notified)].res = <<>>]
            /\ joined' = Append(joined, Head(notified))
            /\ notified' = Tail(notified)
    /\ pc' = "for"
    /\ UNCHANGED <<dirs, max_concurency, overflow_checks, iter, count, results>>
    /\ UNCHANGED <<unitVars, parseVars, discVars>>

\* if let Some(result) = tasks.join_next().await { .. } inside the loop; an
\* empty JoinSet gives None at once
LoopJoin ==
    /\ pc = "join"
    /\ IF InSet = {}
       THEN UNCHANGED <<tasks, notified, results, joined>>
       ELSE JoinSome
    /\ pc' = "for"
    /\ UNCHANGED <<dirs, max_concurency, overflow_checks, iter, count>>
    /\ UNCHANGED <<unitVars, parseVars, discVars>>

\* `if let` in place of `while let`: one task is joined and run_plans returns
DrainJoinOnce ==
    /\ pc = "drain" /\ InSet # {}
    /\ JoinSome
    /\ pc' = "done"
    /\ UNCHANGED <<dirs, max_concurency, overflow_checks, iter, count>>
    /\ UNCHANGED <<unitVars, parseVars, discVars>>

\* the drain giving up when no task has finished yet (a timeout)
DrainJoinOrTimeout ==
    /\ pc = "drain" /\ InSet # {}
    /\ \/ JoinSome /\ UNCHANGED pc
       \/ /\ notified = <<>>
          /\ pc' = "done"
          /\ UNCHANGED <<tasks, notified, results, joined>>
    /\ UNCHANGED <<dirs, max_concurency, overflow_checks, iter, count>>
    /\ UNCHANGED <<unitVars, parseVars, discVars>>

\* while let Some(result) = tasks.join_next().await { .. }
DrainJoin ==
    /\ pc = "drain" /\ InSet # {}
    /\ JoinSome
    /\ UNCHANGED <<dirs, max_concurency, overflow_checks, pc, iter, count>>
    /\ UNCHANGED <<unitVars, parseVars, discVars>>

\* returning as soon as no finished task is waiting (try_join_next)
ReturnNoneReady ==
    /\ pc = "drain" /\ notified = <<>>
    /\ pc' = "done"
    /\ UNCHANGED <<dirs, max_concurency, overflow_checks, iter, count, tasks,
                   notified, results, joined>>
    /\ UNCHANGED <<unitVars, parseVars, discVars>>

\* join_next gives None: the while loop ends and run_plans returns results
Return ==
    /\ pc = "drain" /\ InSet = {}
    /\ pc' = "done"
    /\ UNCHANGED <<dirs, max_concurency, overflow_checks, iter, count, tasks,
                   notified, results, joined>>
    /\ UNCHANGED <<unitVars, parseVars, discVars>>

\* a task reaches Command::output(): the process starts, or cannot be
\* launched and the task ends in the Err(e) arm
TaskLaunch(i) ==
    /\ tasks[i].st = "spawned"
    /\ \/ /\ tasks' = [tasks EXCEPT ![i].st = "running"]
          /\ UNCHANGED notified
       \/ \E e \in IoErrors, io_ok \in BOOLEAN :
             Finish(i, run_terragrunt_plan(tasks[i].path, LaunchErr(e), io_ok,
                                           overflow_checks))
    /\ UNCHANGED <<dirs, max_concurency, overflow_checks, pc, iter, count,
                   results, joined>>
    /\ UNCHANGED <<unitVars, parseVars, discVars>>

\* a task's process exits and the task runs to its end
TaskExit(i) ==
    /\ tasks[i].st = "running"
    /\ \E proc \in SchedExits, io_ok \in BOOLEAN :
          Finish(i, run_terragrunt_plan(tasks[i].path, proc, io_ok, overflow_checks))
    /\ UNCHANGED <<dirs, max_concurency, overflow_checks, pc, iter, count,
                   results, joined>>
    /\ UNCHANGED <<unitVars, parseVars, discVars>>

NoUnit ==
    /\ upath = <<>> /\ uproc = LaunchErr(<<>>) /\ uio = TRUE /\ uresult = <<>>
NoParse ==
    /\ output = <<>> /\ changes = <<>>
NoDisc ==
    /\ walk = <<>> /\ dio = TRUE /\ found = <<>>

Init ==
    /\ dirs \in DirLists
    /\ max_concurency \in 0..MaxN
    \* no process of a batch prints an overflowing sum (SchedExits), so a
    \* batch runs the same in either build
    /\ overflow_checks = TRUE
    /\ pc = "for"
    /\ iter = dirs
    /\ count = 0
    /\ tasks = <<>>
    /\ notified = <<>>
    /\ results = <<>>
    /\ joined = <<>>
    /\ NoUnit /\ NoParse /\ NoDisc

Next ==
    \/ ForSpawn
    \/ ForEnd
    \/ LoopJoin
    \/ DrainJoin
    \/ Return
    \/ \E i \in TaskIds : TaskLaunch(i)
    \/ \E i \in TaskIds : TaskExit(i)

Spec == Init /\ [][Next]_vars

\* run_plans under a runtime that keeps polling what can run, with every
\* process started ending at some time: a step that stays possible is taken
\* in the end.  Shorter lists, for the search of all runs' ends.
MaxLiveUnits == 2
InitLive == Init /\ Len(dirs) <= MaxLiveUnits
SpecLive == InitLive /\ [][Next]_vars /\ WF_vars(Next)

-----------------------------------------------------------------------------
(* One run_terragrunt_plan call, over wider inputs *)

NoSched ==
    /\ dirs = <<>> /\ max_concurency = 0 /\ pc = "done" /\ iter = <<>>
    /\ count = 0 /\ tasks = <<>> /\ notified = <<>> /\ results = <<>>
    /\ joined = <<>>

InitUnit ==
    /\ upath \in UnitPaths
    /\ uproc \in UnitProcs
    /\ uio \in BOOLEAN
    /\ overflow_checks \in BOOLEAN
    /\ uresult = <<>>
    /\ NoSched /\ NoParse /\ NoDisc

UnitRun ==
    /\ uresult = <<>>
    /\ uresult' = <<run_terragrunt_plan(upath, uproc, uio, overflow_checks)>>
    /\ UNCHANGED <<upath, uproc, uio, overflow_checks, schedVars, parseVars, discVars>>

NextUnit == UnitRun

SpecUnit == InitUnit /\ [][NextUnit]_vars

-----------------------------------------------------------------------------
(* One parse_plan_changes call, over wider inputs *)

InitParse ==
    /\ output \in Texts
    /\ overflow_checks \in BOOLEAN
    /\ changes = <<>>
    /\ NoSched /\ NoUnit /\ NoDisc

Classify ==
    /\ changes = <<>>
    /\ changes' = <<parse_plan_changes(output, overflow_checks)>>
    /\ UNCHANGED <<output, overflow_checks, schedVars, unitVars, discVars>>

NextParse == Classify

SpecParse == InitParse /\ [][NextParse]_vars

-----------------------------------------------------------------------------
(* Discovery: find_tg_dirs over what the walk yields *)

\* most entries of the tree below that a walk may hold
MaxEntries == 8

HclSuffix == <<".","h","c","l">>
NameA == <<"a">>
NameS == <<"s">>
NameB == <<"b">>
NameT == <<"t",".","h","c","l">>
NameU == <<"u",".","h","c","l">>
NameM == <<"m",".","t","f">>
NameH == <<"h","c","l">>

\* the entries of the richest tree, in walk order, each path as its
\* components; the first is the root
FullWalk ==
    << <<NameA>>, <<NameA, NameT>>, <<NameA, NameS>>, <<NameA, NameS, NameT>>,
       <<NameA, NameS, NameU>>, <<NameA, NameU>>, <<NameA, NameB>>,
       <<NameA, NameB, NameH>>, <<NameA, NameB, NameM>> >>
WalkLen == IF MaxEntries < Len(FullWalk) THEN MaxEntries ELSE Len(FullWalk)

\* walkdir::Result<DirEntry>
EntryOk(path) == [ok |-> TRUE, path |-> path]
EntryErr == [ok |-> FALSE, path |-> <<>>]

\* a tree says of each entry whether it is absent, read ("ok") or
\* unreadable ("err"); an entry is there only inside a directory that was read
Trees ==
    {t \in [1..WalkLen -> {"absent", "ok", "err"}] :
        \A i \in 1..WalkLen :
           (t[i] # "absent" /\ Len(FullWalk[i]) > 1) =>
              \E j \in 1..(i - 1) :
                 /\ t[j] = "ok"
                 /\ FullWalk[j] = SubSeq(FullWalk[i], 1, Len(FullWalk[i]) - 1)}

\* what the walk of a tree yields, from entry i on
RECURSIVE WalkFrom(_, _)
WalkFrom(t, i) ==
    IF i > WalkLen THEN <<>>
    ELSE (CASE t[i] = "absent" -> <<>>
            [] t[i] = "ok" -> <<EntryOk(FullWalk[i])>>
            [] t[i] = "err" -> <<EntryErr>>) \o WalkFrom(t, i + 1)
Walks == {WalkFrom(t, 1) : t \in Trees}

\* str::ends_with
ends_with(s, suffix) ==
    /\ Len(s) >= Len(suffix)
    /\ SubSeq(s, Len(s) - Len(suffix) + 1, Len(s)) = suffix

\* DirEntry::file_name: the last component of the entry's path
file_name(path) == path[Len(path)]

\* Path::parent: Some(the path without its last component), None for a
\* path with no component
parent(path) == IF Len(path) = 0 THEN None ELSE Some(SubSeq(path, 1, Len(path) - 1))

\* a path of components as text, "/" between the components
RECURSIVE PathText(_)
PathText(path) ==
    IF Len(path) = 0 THEN <<>>
    ELSE IF Len(path) = 1 THEN path[1]
         ELSE path[1] \o <<"/">> \o PathText(Tail(path))

\* the loop stopping at the first entry that cannot be read
RECURSIVE find_tg_dirs_until_err(_)
find_tg_dirs_until_err(entries) ==
    IF entries = <<>> \/ ~Head(entries).ok THEN <<>>
    ELSE LET e == Head(entries) IN
         (IF ends_with(file_name(e.path), HclSuffix) /\ parent(e.path) # None
          THEN <<PathText(parent(e.path)[1])>>
          ELSE <<>>) \o find_tg_dirs_until_err(Tail(entries))

\* find_tg_dirs: the loop over the entries that are Ok
RECURSIVE find_tg_dirs(_)
find_tg_dirs(entries) ==
    IF entries = <<>> THEN <<>>
    ELSE LET e == Head(entries) IN
         (IF e.ok /\ ends_with(file_name(e.path), HclSuffix) /\ parent(e.path) # None
          THEN <<PathText(parent(e.path)[1])>>
          ELSE <<>>) \o find_tg_dirs(Tail(entries))

InitDisc ==
    /\ walk \in Walks
    /\ dio \in BOOLEAN
    /\ found = <<>>
    /\ overflow_checks \in BOOLEAN
    /\ NoSched /\ NoUnit /\ NoParse

\* the call: the loop, then println!("Found {} terragrunt dirs"), which
\* panics when it cannot write
Discover ==
    /\ found = <<>>
    /\ found' = <<[panic |-> ~dio,
                   value |-> IF dio THEN find_tg_dirs(walk) ELSE <<>>]>>
    /\ UNCHANGED <<walk, dio, overflow_checks, schedVars, unitVars, parseVars>>

NextDisc == Discover

SpecDisc == InitDisc /\ [][NextDisc]_vars

-----------------------------------------------------------------------------
(* Properties *)

Panicked == {i \in TaskIds : tasks[i].panicked}
\* the ids join_next returned with an Ok result, in order
OkJoined == SelectSeq(joined, LAMBDA i : ~tasks[i].panicked)
Occurrences(seq, x) == Cardinality({k \in 1..Len(seq) : seq[k] = x})
ResultPaths == [k \in 1..Len(results) |-> results[k].path]
LaunchFailure(r) ==
    /\ r.status = Failed
    /\ Len(r.error) = 1
    /\ Len(r.error[1]) > Len(FailedToExecute)
    /\ SubSeq(r.error[1], 1, Len(FailedToExecute)) = FailedToExecute
ProcessFailure(r) == r.status = Failed /\ r.error = Some(from_utf8_lossy(Boom))

\* C1: conservation of outcomes.  With a ceiling of at least 1, when
\* run_plans has returned and no task panicked, results holds exactly as
\* many outcomes as there were work units (the empty list included).
C1_Conservation ==
    (pc = "done" /\ max_concurency >= 1 /\ Panicked = {})
        => Len(results) = Len(dirs)

C1_Witness ==
    /\ pc = "done" /\ max_concurency = 2 /\ Panicked = {}
    /\ Len(dirs) = 3 /\ Len(results) = 3

\* C2: concurrency ceiling.  With a ceiling N of at least 1, the tasks
\* spawned and not yet returned by join_next are never more than N, and so
\* neither are the external processes running.
C2_Ceiling ==
    max_concurency >= 1 =>
        /\ Cardinality(InSet) <= max_concurency
        /\ Cardinality(Running) <= max_concurency

C2_Witness ==
    /\ max_concurency = 2 /\ Len(dirs) = 3 /\ Len(tasks) = 3
    /\ Cardinality(InSet) = 2 /\ Cardinality(Running) = 2

\* C3: run_plans returns only after every work unit has been admitted and
\* every task has finished and been collected: where it has returned, the
\* iterator is exhausted, one task was spawned per unit, the JoinSet is
\* empty and no process is running.
C3_ReturnAfterAll ==
    pc = "done" =>
        /\ iter = <<>>
        /\ Len(tasks) = Len(dirs)
        /\ InSet = {}
        /\ Running = {}
        /\ notified = <<>>

C3_Witness ==
    /\ pc = "done" /\ Len(dirs) = 3 /\ max_concurency = 3
    /\ InSet = {} /\ Len(joined) = 3

\* C4: exactly-once execution.  The tasks spawned so far are, in order, the
\* work units the loop has taken (so each unit is started once, duplicates
\* each on their own); join_next never returns a task twice; results holds,
\* in order, one outcome per task that was joined without a panic, with
\* that task's path; and once run_plans has returned with no panic the
\* outcome paths are the input paths as multisets.
C4_ExactlyOnce ==
    /\ Len(tasks) + Len(iter) = Len(dirs)
    /\ \A i \in TaskIds : tasks[i].path = dirs[i]
    /\ iter = SubSeq(dirs, Len(tasks) + 1, Len(dirs))
    /\ \A k, l \in 1..Len(joined) : joined[k] = joined[l] => k = l
    /\ \A k \in 1..Len(joined) : joined[k] \in TaskIds
    /\ Len(results) = Len(OkJoined)
    /\ \A k \in 1..Len(results) :
          results[k].path = from_utf8_lossy(tasks[OkJoined[k]].path)
    /\ (pc = "done" /\ Panicked = {}) =>
          \A p \in Paths :
             Occurrences(ResultPaths, from_utf8_lossy(p)) = Occurrences(dirs, p)

C4_Witness ==
    /\ pc = "done" /\ Panicked = {} /\ max_concurency = 2
    /\ dirs = << <<"a">>, <<"b">>, <<"a">> >>
    /\ Occurrences(ResultPaths, <<"a">>) = 2
    /\ Occurrences(ResultPaths, <<"b">>) = 1
    /\ joined = <<2, 3, 1>>

\* C5: failure isolation.  An outcome that is Failed, from a launch failure
\* or from a failing exit, never ends the batch: where run_plans has
\* returned, every work unit was started and joined, and every unit whose
\* task did not panic has its outcome in results.
C5_FailureIsolation ==
    pc = "done" =>
        \A i \in 1..Len(dirs) :
           /\ i \in TaskIds
           /\ tasks[i].st = "joined"
           /\ ~tasks[i].panicked =>
                 \E k \in 1..Len(results) :
                    /\ OkJoined[k] = i
                    /\ results[k].path = from_utf8_lossy(dirs[i])

C5_Witness ==
    /\ pc = "done" /\ max_concurency = 2 /\ Len(dirs) = 3
    /\ joined = <<1, 2, 3>> /\ Len(results) = 3
    /\ LaunchFailure(results[1])
    /\ ProcessFailure(results[2])
    /\ results[3].status = Success

\* C6: silent drop of panicked tasks.  A task that panics adds no outcome;
\* every unit is still started and joined; where run_plans has returned,
\* results holds as many outcomes as there are units less the tasks that
\* panicked.
C6_SilentDrop ==
    /\ Len(results) = Len(joined) - Cardinality({i \in Panicked : tasks[i].st = "joined"})
    /\ pc = "done" =>
          /\ Len(joined) = Len(dirs)
          /\ Len(results) = Len(dirs) - Cardinality(Panicked)

C6_Witness ==
    /\ pc = "done" /\ max_concurency = 2 /\ Len(dirs) = 3
    /\ Panicked = {2} /\ joined = <<1, 2, 3>> /\ Len(results) = 2
\* the outcome of the one run_terragrunt_plan call, when it returned one
UnitReturned == uresult # <<>> /\ uresult[1] # JoinError
UnitOutcome == uresult[1][1]

\* C7: outcome invariant.  An outcome run_terragrunt_plan returns has, when
\* its status is Success, no error and a non-empty plan_file, and, when its
\* status is Failed, changes_count 0, an empty plan_file and an error.
C7_OutcomeInvariant ==
    UnitReturned =>
        /\ UnitOutcome.status \in {Success, Failed}
        /\ UnitOutcome.status = Success =>
              /\ UnitOutcome.error = None
              /\ UnitOutcome.plan_file # <<>>
        /\ UnitOutcome.status = Failed =>
              /\ UnitOutcome.changes_count = U32Zero
              /\ UnitOutcome.plan_file = <<>>
              /\ UnitOutcome.error # None

C7_Witness ==
    /\ UnitReturned
    /\ upath = <<>> /\ uproc = Exited(TRUE, DriftText, Boom)
    /\ UnitOutcome.status = Success
    /\ UnitOutcome.plan_file = PlanFileName
    /\ UnitOutcome.stderr = Boom
    /\ UnitOutcome.error = None

\* C8: process failure mapping.  When the process launched and exited with
\* a failing status, the call panics only if println! does, and otherwise
\* its outcome is Failed with changes_count 0, an empty plan_file, the
\* decoded stderr as its error (the empty text included) and the decoded
\* stdout and stderr as captured; what parse_plan_changes makes of the
\* stdout plays no part.
C8_ProcessFailure ==
    (uresult # <<>> /\ uproc.launched /\ ~uproc.success) =>
        /\ UnitReturned <=> uio
        /\ UnitReturned =>
              UnitOutcome =
                 PlanResult(from_utf8_lossy(upath), Failed, U32Zero,
                            from_utf8_lossy(uproc.stdout),
                            from_utf8_lossy(uproc.stderr), <<>>,
                            Some(from_utf8_lossy(uproc.stderr)))

C8_Witness ==
    /\ UnitReturned
    /\ uproc = Exited(FALSE, DriftText, <<>>)
    /\ parse_plan_changes(UnitOutcome.stdout, overflow_checks).value = U32(2)
    /\ UnitOutcome.changes_count = U32Zero
    /\ UnitOutcome.error = Some(<<>>)

\* C9: launch failure mapping.  When the process could not be launched, the
\* outcome is Failed with empty stdout, stderr and plan_file, changes_count
\* 0, and as its error the text "Failed to execute: " followed by the
\* launch error, which is not empty and is not the (empty) captured stderr.
C9_LaunchFailure ==
    (UnitReturned /\ ~uproc.launched) =>
        /\ UnitOutcome =
              PlanResult(from_utf8_lossy(upath), Failed, U32Zero, <<>>, <<>>, <<>>,
                         Some(FailedToExecute \o uproc.e))
        /\ UnitOutcome.error # None
        /\ UnitOutcome.error[1] # <<>>
        /\ UnitOutcome.error[1] # UnitOutcome.stderr

C9_Witness ==
    /\ UnitReturned
    /\ uproc = LaunchErr(<<"E","N","O","E","N","T">>)
    /\ LaunchFailure(UnitOutcome)
    /\ UnitOutcome.stderr = <<>>

\* C10: classifier precedence.  For a text that holds "No changes"
\* anywhere, parse_plan_changes returns 0 without a panic, whatever else
\* the text holds, a "Plan:" line with non-zero integers included.
C10_NoChangesFirst ==
    (changes # <<>> /\ contains(output, NoChangesMarker)) =>
        changes[1] = [panic |-> FALSE, value |-> U32Zero]

C10_Witness ==
    /\ changes = <<[panic |-> FALSE, value |-> U32Zero]>>
    /\ output = PlanMarker \o <<" ","2">> \o <<"\n">> \o NoChangesMarker
    /\ parse_plan_first(output, overflow_checks).value = U32(2)


\* a token made of an optional "+" and one or more digits: a non-negative
\* integer, of any size
IsNatToken(tok) ==
    LET body == IF Len(tok) > 0 /\ tok[1] = "+" THEN Tail(tok) ELSE tok IN
    Len(body) > 0 /\ \A i \in 1..Len(body) : body[i] \in Digits

\* the value of such a token as <<hi, lo>>, hi * 2^16 + lo, hi unbounded
RECURSIVE NatValueFrom(_, _, _)
NatValueFrom(body, i, acc) ==
    IF i > Len(body) THEN acc
    ELSE LET lo == acc[2] * 10 + DigitVal(body[i]) IN
         NatValueFrom(body, i + 1, <<acc[1] * 10 + (lo \div Limb), lo % Limb>>)
NatValue(tok) ==
    NatValueFrom(IF tok[1] = "+" THEN Tail(tok) ELSE tok, 1, <<0, 0>>)

\* the sum, without any width, of the integer tokens of a line
RECURSIVE NatSum(_)
NatSum(toks) ==
    IF toks = <<>> THEN <<0, 0>>
    ELSE LET rest == NatSum(Tail(toks))
             v == IF IsNatToken(Head(toks)) THEN NatValue(Head(toks)) ELSE <<0, 0>>
             lo == v[2] + rest[2]
         IN  <<v[1] + rest[1] + (lo \div Limb), lo % Limb>>

\* the sum of the integer tokens of the first line holding "Plan:", 0 when
\* no line holds it
ExactPlanSum(text) ==
    LET l == FirstPlanLine(lines(text)) IN
    IF l = <<>> THEN <<0, 0>> ELSE NatSum(split_whitespace(l[1]))

\* C11: classifier sum.  For a text without "No changes",
\* parse_plan_changes returns the exact sum of the tokens of the first
\* "Plan:" line that are non-negative integers, and 0 when no line holds
\* "Plan:".
C11_ExactSum ==
    (changes # <<>> /\ ~contains(output, NoChangesMarker)) =>
        changes[1] = [panic |-> FALSE, value |-> ExactPlanSum(output)]


\* run_plans as seen from outside, with no ceiling in it: it spawns one task
\* per unit in list order before it collects anything, then collects the
\* finished tasks oldest first, then returns
AllSpawned == Len(tasks) = Len(dirs)
BulkSpawn ==
    /\ ~AllSpawned /\ joined = <<>>
    /\ tasks' = spawn(tasks, dirs[Len(tasks) + 1])
    /\ pc' # "done"
    /\ UNCHANGED <<notified, results, joined>>
BulkJoin == AllSpawned /\ JoinSome /\ pc' # "done"
BulkReturn ==
    /\ AllSpawned /\ InSet = {} /\ pc # "done" /\ pc' = "done"
    /\ UNCHANGED <<tasks, notified, results, joined>>
BulkTask == \E i \in TaskIds : TaskLaunch(i) \/ TaskExit(i)
BulkQuiet ==
    /\ (pc' = "done") <=> (pc = "done")
    /\ UNCHANGED <<tasks, notified, results, joined>>
BulkNext == BulkSpawn \/ BulkJoin \/ BulkReturn \/ BulkTask \/ BulkQuiet

\* with a ceiling of at least the number of units, run_plans is always at
\* the place from which the next step of the ceiling-free run is taken
BulkPlace ==
    /\ Cardinality(InSet) <= Len(dirs)
    /\ ~AllSpawned => (pc = "for" /\ iter # <<>> /\ joined = <<>>)
    /\ pc = "join" => (AllSpawned /\ InSet # {} /\ joined = <<>>)
    /\ (pc = "for" /\ AllSpawned) => iter = <<>>

\* C12: ceiling boundary.  For a list of m units, every run with a ceiling
\* N >= m (N = m and N > m alike) is, step by step, a run of the same
\* ceiling-free scheduler: the same units are started in the same order, all
\* m are in flight before the first collection, and the outcomes are
\* collected in completion order; the ceiling shows in nothing but a
\* position of run_plans that changes none of this.
C12_CeilingBoundary ==
    /\ [](max_concurency >= Len(dirs) => BulkPlace)
    /\ [][max_concurency >= Len(dirs) => BulkNext]_vars

C12_Witness ==
    /\ pc = "done" /\ Len(dirs) = 2 /\ max_concurency = 3
    /\ joined = <<2, 1>> /\ Len(results) = 2


\* the ways a unit's process may behave in a batch, and the ways of fixing
\* one behaviour per path
SchedBehaviours == {LaunchErr(e) : e \in IoErrors} \cup SchedExits
Deterministic == [Paths -> SchedBehaviours]
\* the outcome of the unit at path p when its process behaves as det says
OutcomeOf(det, p) == run_terragrunt_plan(p, det[p], TRUE, overflow_checks)[1]
Key(r) == <<r.path, r.status, r.changes_count>>
ResultKeys == [k \in 1..Len(results) |-> Key(results[k])]
ExpectedKeys(det) == [k \in 1..Len(dirs) |-> Key(OutcomeOf(det, dirs[k]))]
\* every outcome collected so far is the one det gives for its unit
ConsistentWith(det) ==
    \A k \in 1..Len(results) :
       results[k] = OutcomeOf(det, tasks[OkJoined[k]].path)

\* C13: batch idempotence.  Fix any behaviour per path.  Every complete run
\* in which no task panicked and every outcome is the one that behaviour
\* gives returns, as a multiset of (path, status, change count), the
\* outcomes of the listed units -- the same multiset whatever the ceiling and
\* the order of completions, so two such runs agree up to order.
C13_Idempotence ==
    (pc = "done" /\ Panicked = {}) =>
        \A det \in Deterministic :
           ConsistentWith(det) =>
              \A x \in {Key(OutcomeOf(det, p)) : p \in Paths}
                         \cup {ResultKeys[k] : k \in 1..Len(results)} :
                 Occurrences(ResultKeys, x) = Occurrences(ExpectedKeys(det), x)

C13_Witness ==
    /\ pc = "done" /\ Panicked = {} /\ max_concurency = 2
    /\ dirs = << <<"a">>, <<"b">>, <<"a">> >>
    /\ joined = <<2, 1, 3>>
    /\ \E det \in Deterministic :
          /\ ConsistentWith(det)
          /\ det[<<"a">>] = Exited(TRUE, DriftText, <<>>)
          /\ det[<<"b">>] = Exited(FALSE, DriftText, Boom)


\* the places in the walk of the entries that were read and whose name ends
\* with ".hcl"
MarkerPlaces ==
    {i \in 1..Len(walk) :
        /\ walk[i].ok
        /\ LET n == walk[i].path[Len(walk[i].path)] IN
           Len(n) >= 4 /\ SubSeq(n, Len(n) - 3, Len(n)) = HclSuffix}
\* the directory that holds the entry at place i, as text
HolderOf(i) == PathText(SubSeq(walk[i].path, 1, Len(walk[i].path) - 1))

\* C14: discovery.  find_tg_dirs returns one work unit per entry that was
\* read and whose name ends with ".hcl": the directory holding it, in walk
\* order, the same directory once per such entry; unreadable entries add
\* nothing and the walk goes on after them.
C14_Discovery ==
    (found # <<>> /\ ~found[1].panic) =>
        /\ Len(found[1].value) = Cardinality(MarkerPlaces)
        /\ \A i \in MarkerPlaces :
              found[1].value[Cardinality({j \in MarkerPlaces : j <= i})] = HolderOf(i)

\* two directories with one marker file each and one directory with none
C14_Witness ==
    /\ walk = <<EntryOk(<<NameA>>), EntryOk(<<NameA, NameT>>),
                EntryOk(<<NameA, NameS>>), EntryOk(<<NameA, NameS, NameT>>),
                EntryOk(<<NameA, NameB>>)>>
    /\ found = <<[panic |-> FALSE, value |-> << <<"a">>, <<"a","/","s">> >>]>>


\* results grows by the outcome of the task that finished first among those
\* not yet collected, put at its end
AppendsOldestFinished ==
    /\ notified # <<>>
    /\ tasks[Head(notified)].st = "finished"
    /\ tasks[Head(notified)].res[1] # JoinError
    /\ results' = Append(results, tasks[Head(notified)].res[1][1])
    /\ joined' = Append(joined, Head(notified))

\* C15: result ordering.  results only ever changes by an outcome being
\* appended, and the outcome appended is that of the task that finished
\* earliest among the finished tasks not yet collected: outcomes are in
\* completion order, not in submission order.
C15_CompletionOrder ==
    [][results' = results \/ AppendsOldestFinished]_vars

\* with a ceiling of 2 and two units, the second unit's outcome comes first
C15_Witness ==
    /\ pc = "done" /\ max_concurency = 2
    /\ dirs = << <<"a">>, <<"b">> >>
    /\ joined = <<2, 1>>
    /\ ResultPaths = << <<"b">>, <<"a">> >>


\* C16: fill, then drain one per admission.  With a ceiling N of at least 1:
\* units are started in list order and count is the number started, never
\* set back; while fewer than N are started nothing has been collected; the
\* wait in the loop is reached only with k >= N started, N in the JoinSet
\* and k - N collected; and after an iteration with k >= N started, N - 1
\* tasks are in the JoinSet and k - N + 1 have been collected.
C16_FillThenDrain ==
    max_concurency >= 1 =>
        /\ count = Len(tasks)
        /\ \A i \in TaskIds : tasks[i].path = dirs[i]
        /\ (pc = "for" /\ Len(tasks) < max_concurency) => joined = <<>>
        /\ pc = "join" =>
              /\ Len(tasks) >= max_concurency
              /\ Cardinality(InSet) = max_concurency
              /\ Len(joined) = Len(tasks) - max_concurency
        /\ (pc = "for" /\ Len(tasks) >= max_concurency) =>
              /\ Cardinality(InSet) = max_concurency - 1
              /\ Len(joined) = Len(tasks) - max_concurency + 1

C16_Witness ==
    /\ pc = "for" /\ max_concurency = 2 /\ Len(dirs) = 3
    /\ Len(tasks) = 2 /\ iter # <<>>
    /\ Cardinality(InSet) = 1 /\ Len(joined) = 1


\* C17: termination.  For every ceiling from 0 on and every list, when every
\* step that stays possible is taken in the end (each process started exits
\* or fails to launch, each task and run_plans itself get to run), run_plans
\* returns; and the wait inside the loop is never on an empty JoinSet.
C17_Termination ==
    /\ [](pc = "join" => InSet # {})
    /\ <>(pc = "done")

C17_Witness ==
    /\ pc = "done" /\ max_concurency = 0 /\ Len(dirs) = 2
    /\ Len(joined) = 2


\* tasks that have not come to their end: not yet launched, or with their
\* process still running
Unfinished == {i \in TaskIds : tasks[i].st \in {"spawned", "running"}}

\* C18: no timeout.  While a started unit's process has not exited,
\* run_plans does not return, whatever else has completed and been
\* collected: no step returns with a task unfinished, a task whose process
\* runs stays in the JoinSet, and with a ceiling N of at least 1 and N
\* processes running no step admits a further unit.  A process that never
\* exits therefore keeps run_plans from returning for ever.
C18_NoTimeout ==
    /\ [](pc = "done" => Unfinished = {})
    /\ [][Unfinished # {} => pc' # "done"]_vars
    /\ [][\A i \in Running : tasks'[i].st \in {"running", "finished"}]_vars
    /\ [][(max_concurency >= 1 /\ Cardinality(Running) >= max_concurency)
             => Len(tasks') = Len(tasks)]_vars

\* the third unit's process still runs after the other two were collected
C18_Witness ==
    /\ pc = "drain" /\ max_concurency = 2 /\ Len(dirs) = 3
    /\ joined = <<1, 2>> /\ Running = {3}


\* one task at a time: a unit is started only once every unit before it has
\* been collected, the tasks are collected in the order they were started,
\* and the outcomes are those of the units in list order (all of them, in
\* that order, once run_plans has returned with no panic)
Serial ==
    /\ Cardinality(InSet) <= 1
    /\ \A i \in TaskIds : i < Len(tasks) => tasks[i].st = "joined"
    /\ pc = "for" => InSet = {}
    /\ pc = "join" => InSet # {}
    /\ joined = [k \in 1..Len(joined) |-> k]
    /\ Panicked = {} =>
          ResultPaths = [k \in 1..Len(results) |-> from_utf8_lossy(dirs[k])]
    /\ pc = "done" =>
          /\ Len(joined) = Len(dirs)
          /\ Panicked = {} => Len(results) = Len(dirs)

\* C19: serial case.  With a ceiling of 1, unit k+1 is never started before
\* unit k's task has finished and been collected, and, with no panic, the
\* returned results are in list order.
C19_SerialOne == max_concurency = 1 => Serial

C19_Witness ==
    /\ pc = "done" /\ max_concurency = 1 /\ Panicked = {}
    /\ dirs = << <<"a">>, <<"b">>, <<"a">> >>
    /\ ResultPaths = dirs

\* C20: zero ceiling.  With a ceiling of 0, count >= 0 holds after every
\* spawn, so run_plans goes exactly as with a ceiling of 1: each unit is
\* started and collected before the next is admitted, the wait is never on an
\* empty JoinSet, every unit is joined and every outcome returned; one task
\* is in flight, more than the ceiling of 0.
C20_ZeroCeiling ==
    max_concurency = 0 =>
        /\ Serial
        /\ tasks # <<>> =>
              after_spawn(count, max_concurency) = after_spawn(count, 1)
        /\ Len(tasks) > Len(joined) => pc = "join" /\ Cardinality(InSet) = 1

C20_Witness ==
    /\ max_concurency = 0 /\ Len(dirs) = 3 /\ Len(tasks) = 2
    /\ pc = "join" /\ Running = {2} /\ joined = <<1>>
    /\ Cardinality(InSet) > max_concurency

=============================================================================
